---- MODULE Spec2Model ----
(***************************************************************************)
(* A model of playwright-result-scrubber: the rule engine                  *)
(* (AbstractScrubber.applyScrubRules), the rule factories                  *)
(* (LocatorRulesFactory, DefaultRulesFactory), and the two container       *)
(* scrubbers (TraceScrubber, HtmlReportScrubber) run by the orchestrator.  *)
(*                                                                         *)
(* Text is a sequence of tokens.  A token is a run of characters that the  *)
(* patterns of the program never split: a word ("password"), a keyword of  *)
(* a pattern (".fill", "window.playwrightReportBase64") or one character   *)
(* of punctuation.  Regular expressions are syntax trees evaluated by a    *)
(* backtracking matcher with the priorities of the ECMAScript one.         *)
(***************************************************************************)
EXTENDS Integers, Sequences, FiniteSets, TLC

VARIABLES
    options,    \* ScrubberOptions: rules, outputDir, preserveOriginals
    disk,       \* the file system: canonical path -> file
    scratch,    \* .trace-scrubber-temp: scratch name -> directory
    pc,         \* where the run is
    queue,      \* the artifacts still to process, in order
    cur,        \* the artifact in flight, with the locals of its scrubFile
    orig,       \* history: the disk before the run
    trail,      \* history: what the run did (writes, deletions, warnings)
    arg,        \* harness of the pure functions: the input
    ret,        \* harness of the pure functions: the output
    playwrightConfig, \* the configuration the config file evaluates to
    paths,      \* DirectoryPaths: the local of scrub, once derived
    configFile, \* the file at configPath: whether it exists, its extension, whether it loads
    caller,     \* the caller: the rule list as it was passed, and what the caller
                \* still does to that list
    logged      \* history: the lines written to the console, as <<source, kind>>

vars ==
    <<options, disk, scratch, pc, queue, cur, orig, trail, arg, ret, playwrightConfig, paths,
      configFile, caller, logged>>

----
(* Tokens *)

DQ == "\""
SQ == "'"
BT == "BT"
Quotes == {DQ, SQ}
WS == {" "}
Digits == {"0", "1", "2", "3", "4", "5", "6", "7", "8", "9"}

DigitVal(t) ==
    CASE t = "0" -> 0 [] t = "1" -> 1 [] t = "2" -> 2 [] t = "3" -> 3
      [] t = "4" -> 4 [] t = "5" -> 5 [] t = "6" -> 6 [] t = "7" -> 7
      [] t = "8" -> 8 [] t = "9" -> 9

\* String.prototype.toLowerCase on the tokens that have an upper-case form.
Lower(t) ==
    CASE t = "PASSWORD" -> "password"
      [] t = ".JSON" -> ".json"
      [] t = ".TXT" -> ".txt"
      [] t = "A" -> "a"
      [] OTHER -> t

SubSeqFrom(s, i) == SubSeq(s, i, Len(s))
IsPrefix(p, s) == Len(p) <= Len(s) /\ SubSeq(s, 1, Len(p)) = p
IsSuffix(p, s) == Len(p) <= Len(s) /\ SubSeq(s, Len(s) - Len(p) + 1, Len(s)) = p

----
(* Regular expressions: syntax trees *)

Node(t, s, n, a) == [t |-> t, s |-> s, n |-> n, a |-> a]
In(S) == Node("in", S, 0, <<>>)          \* one token of S: a literal, [..]
Lit(x) == In({x})
NotIn(S) == Node("notin", S, 0, <<>>)    \* [^..]
Cat(a) == Node("cat", {}, 0, a)
Star(r) == Node("star", {}, 0, <<r>>)    \* r*, greedy
Plus(r) == Cat(<<r, Star(r)>>)           \* r+
Opt(r) == Node("opt", {}, 0, <<r>>)      \* r?
Grp(n, r) == Node("grp", {}, n, <<r>>)   \* the n-th capturing group
Sp == Star(In(WS))                       \* \s*
Q == In(Quotes)                          \* ["'], ['"], ["'']
NQ == NotIn(Quotes)                      \* [^"'], [^''"]

MaxGroups == 4
NoCaps == [g \in 1..MaxGroups |-> <<0, 0>>]

\* Every way r matches s from position i, best first: <<end, captures>>.
RECURSIVE Ends(_, _, _, _, _)
RECURSIVE EndsAll(_, _, _, _)
RECURSIVE EndsCat(_, _, _, _, _)
RECURSIVE EndsStar(_, _, _, _, _)

EndsAll(r, s, starts, ci) ==
    IF starts = <<>> THEN <<>>
    ELSE Ends(r, s, Head(starts)[1], Head(starts)[2], ci)
             \o EndsAll(r, s, Tail(starts), ci)

EndsCat(a, k, s, starts, ci) ==
    IF k > Len(a) \/ starts = <<>> THEN starts
    ELSE EndsCat(a, k + 1, s, EndsAll(a[k], s, starts, ci), ci)

\* One more iteration must consume something; then as many as possible.
EndsStar(r, s, i, c, ci) ==
    LET once == SelectSeq(Ends(r, s, i, c, ci), LAMBDA m : m[1] > i)
        RECURSIVE more(_)
        more(ms) == IF ms = <<>> THEN <<>>
                    ELSE EndsStar(r, s, Head(ms)[1], Head(ms)[2], ci) \o more(Tail(ms))
    IN  more(once) \o << <<i, c>> >>

Ends(r, s, i, c, ci) ==
    CASE r.t = "in" ->
            IF i <= Len(s)
               /\ (IF ci THEN Lower(s[i]) \in {Lower(x) : x \in r.s} ELSE s[i] \in r.s)
            THEN << <<i + 1, c>> >> ELSE <<>>
      [] r.t = "notin" ->
            IF i <= Len(s) /\ s[i] \notin r.s THEN << <<i + 1, c>> >> ELSE <<>>
      [] r.t = "cat" -> EndsCat(r.a, 1, s, << <<i, c>> >>, ci)
      [] r.t = "star" -> EndsStar(r.a[1], s, i, c, ci)
      [] r.t = "opt" -> Ends(r.a[1], s, i, c, ci) \o << <<i, c>> >>
      [] r.t = "grp" ->
            LET ms == Ends(r.a[1], s, i, c, ci)
            IN  [k \in 1..Len(ms) |->
                    <<ms[k][1], [ms[k][2] EXCEPT ![r.n] = <<i, ms[k][1]>>]>>]

\* RegExp.prototype.exec from position pos: the leftmost match, the best at
\* that position.  [found, at, end, caps]
RECURSIVE ExecFrom(_, _, _, _)
ExecFrom(ast, ci, s, pos) ==
    IF pos > Len(s) + 1 THEN [found |-> FALSE, at |-> 0, end |-> 0, caps |-> NoCaps]
    ELSE LET ms == Ends(ast, s, pos, NoCaps, ci)
         IN  IF ms # <<>>
             THEN [found |-> TRUE, at |-> pos, end |-> ms[1][1], caps |-> ms[1][2]]
             ELSE ExecFrom(ast, ci, s, pos + 1)

Captured(s, m, g) ==
    IF m.caps[g] = <<0, 0>> THEN <<>> ELSE SubSeq(s, m.caps[g][1], m.caps[g][2] - 1)

\* GetSubstitution: the replacement template expanded for match m of a
\* pattern with ng groups.  $$, $&, $n, $nn, and $ before a backtick (the
\* token BT) or an apostrophe are special.
RECURSIVE GetSubstitution(_, _, _, _, _)
GetSubstitution(tpl, k, s, m, ng) ==
    IF k > Len(tpl) THEN <<>>
    ELSE IF tpl[k] # "$" \/ k = Len(tpl)
    THEN <<tpl[k]>> \o GetSubstitution(tpl, k + 1, s, m, ng)
    ELSE LET n1 == tpl[k + 1]
             two == k + 2 <= Len(tpl) /\ n1 \in Digits /\ tpl[k + 2] \in Digits
             nn == IF two THEN 10 * DigitVal(n1) + DigitVal(tpl[k + 2]) ELSE 0
         IN  CASE n1 = "$" -> <<"$">> \o GetSubstitution(tpl, k + 2, s, m, ng)
               [] n1 = "&" -> SubSeq(s, m.at, m.end - 1)
                                 \o GetSubstitution(tpl, k + 2, s, m, ng)
               [] n1 = BT -> SubSeq(s, 1, m.at - 1)
                                 \o GetSubstitution(tpl, k + 2, s, m, ng)
               [] n1 = SQ -> SubSeqFrom(s, m.end)
                                 \o GetSubstitution(tpl, k + 2, s, m, ng)
               [] n1 \in Digits /\ two /\ nn >= 1 /\ nn <= ng ->
                     Captured(s, m, nn) \o GetSubstitution(tpl, k + 3, s, m, ng)
               [] n1 \in Digits /\ ~(two /\ nn >= 1 /\ nn <= ng)
                  /\ DigitVal(n1) >= 1 /\ DigitVal(n1) <= ng ->
                     Captured(s, m, DigitVal(n1)) \o GetSubstitution(tpl, k + 2, s, m, ng)
               [] OTHER -> <<"$">> \o GetSubstitution(tpl, k + 1, s, m, ng)

\* String.prototype.replace(regexp, template).  With the g flag every
\* non-overlapping match is replaced, left to right; without it the first.
RECURSIVE ReplaceFrom(_, _, _, _)
ReplaceFrom(re, tpl, s, pos) ==
    LET m == ExecFrom(re.ast, "i" \in re.flags, s, pos)
    IN  IF ~m.found THEN SubSeqFrom(s, pos)
        ELSE LET sub == SubSeq(s, pos, m.at - 1) \o GetSubstitution(tpl, 1, s, m, re.ng)
             IN  IF "g" \notin re.flags THEN sub \o SubSeqFrom(s, m.end)
                 ELSE IF m.end > m.at THEN sub \o ReplaceFrom(re, tpl, s, m.end)
                 ELSE IF m.at > Len(s) THEN sub
                 ELSE sub \o <<s[m.at]>> \o ReplaceFrom(re, tpl, s, m.at + 1)

Replace(s, re, tpl) == ReplaceFrom(re, tpl, s, 1)

----
(* Patterns.  The source of a pattern is [fam, k, id, m]: its family, the  *)
(* number of its template in the family, and the words interpolated.       *)

Src(fam, k, id, m) == [fam |-> fam, k |-> k, id |-> id, m |-> m]

ReportVar == "window.playwrightReportBase64"
DataUri == "data:application/zip;base64,"
GetByWords == {".getByTestId", ".getByRole", ".getByLabel", ".getByPlaceholder"}
NotBracket == NotIn({"]"})       \* [^\]]
NotParen == NotIn({")"})         \* [^\)]

\* (<head>\)\.<method>\s*\(\s*["''])([^"'']*)((["'']\s*\)))
CallPattern(head, method) ==
    Cat(<<Grp(1, Cat(head \o <<Lit(")"), Lit(method), Sp, Lit("("), Sp, Q>>)),
          Grp(2, Star(NQ)),
          Grp(3, Grp(4, Cat(<<Q, Sp, Lit(")")>>)))>>)

XPathAttr(attr, id) ==
    <<Lit(".locator"), Sp, Lit("("), Sp, Q, Lit("//"), Star(NQ), Lit("["), Lit(attr),
      Sp, Lit("="), Sp, Q, Star(NQ), Lit(id), Star(NQ), Q, Star(NQ), Q, Sp>>

GetBy(word, id) ==
    <<Lit(word), Sp, Lit("("), Sp, Q, Star(NQ), Lit(id), Star(NQ), Q, Sp>>

\* The eleven templates of createRulesForIdentifier, up to the closing
\* parenthesis of the selector call.
LocatorHead(k, id) ==
    CASE k = 1 -> <<Lit(".locator"), Sp, Lit("("), Sp, Q, Star(NQ), Lit("#"), Star(NQ),
                    Lit(id), Star(NQ), Q, Sp>>
      [] k = 2 -> <<Lit(".locator"), Sp, Lit("("), Sp, Q, Star(NQ), Lit("["),
                    Star(NotBracket), Lit(id), Star(NotBracket), Lit("]"), Star(NQ), Q, Sp>>
      [] k = 3 -> XPathAttr("@id", id)
      [] k = 4 -> XPathAttr("@name", id)
      [] k = 5 -> XPathAttr("@class", id)
      [] k = 6 -> <<Lit(".locator"), Sp, Lit("("), Sp, Q, Lit("//"), Star(NQ),
                    Lit("contains"), Sp, Lit("("), Plus(NotIn({","})), Lit(","), Sp,
                    Q, Star(NQ), Lit(id), Star(NQ), Q, Lit(")"), Star(NQ), Q, Sp>>
      [] k = 7 -> <<Lit(".locator"), Sp, Lit("("), Sp, Q, Lit("["), Lit("data-testid"),
                    Star(NotBracket), Lit(id), Star(NotBracket), Lit("]"), Q, Sp>>
      [] k = 8 -> GetBy(".getByTestId", id)
      [] k = 9 -> <<Lit(".getByRole"), Sp, Lit("("), Star(NotParen), Lit("name"), Sp,
                    Lit(":"), Sp, Q, Star(NQ), Lit(id), Star(NQ), Q, Star(NotParen)>>
      [] k = 10 -> GetBy(".getByLabel", id)
      [] k = 11 -> GetBy(".getByPlaceholder", id)

\* The two templates of createMethodRulesForIdentifier.
MethodHead(k, id) ==
    CASE k = 1 -> <<Lit(".locator"), Sp, Lit("("), Star(NotParen), Lit(id), Star(NotParen)>>
      [] k = 2 -> <<In(GetByWords), Sp, Lit("("), Star(NotParen), Lit(id), Star(NotParen)>>

\* (["']<key>["']\s*:\s*["'])([^"']+)(["'])
FieldPattern(key) ==
    Cat(<<Grp(1, Cat(<<Q, Lit(key), Q, Sp, Lit(":"), Sp, Q>>)), Grp(2, Plus(NQ)), Grp(3, Q)>>)

\* window\.playwrightReportBase64\s*=\s*["']data:application\/zip;base64,[^"']+["']
ReportVarPattern ==
    Cat(<<Lit(ReportVar), Sp, Lit("="), Sp, Q, Lit(DataUri), Plus(NQ), Q>>)

\* (window\.playwrightReportBase64\s*=\s*["']data:application\/zip;base64,)([^"']+)(["'];?)
scriptPattern ==
    Cat(<<Grp(1, Cat(<<Lit(ReportVar), Sp, Lit("="), Sp, Q, Lit(DataUri)>>)),
          Grp(2, Plus(NQ)),
          Grp(3, Cat(<<Q, Opt(Lit(";"))>>))>>)

\* Whether new RegExp(source) succeeds: the family "bad" is a source with a
\* syntax error, such as an unbalanced parenthesis.
Compiles(src) == src.fam # "bad"

Ast(src) ==
    CASE src.fam = "text" -> Lit(src.id)
      [] src.fam = "field" -> FieldPattern(src.id)
      [] src.fam = "reportvar" -> ReportVarPattern
      [] src.fam = "script" -> scriptPattern
      [] src.fam = "loc" -> CallPattern(LocatorHead(src.k, src.id), ".fill")
      [] src.fam = "ext" -> CallPattern(MethodHead(src.k, src.id), src.m)

Groups(src) ==
    CASE src.fam \in {"text", "reportvar"} -> 0
      [] src.fam \in {"field", "script"} -> 3
      [] src.fam \in {"loc", "ext"} -> MaxGroups

\* A RegExp object.
RegExp(src, flags) == [ast |-> Ast(src), flags |-> flags, ng |-> Groups(src)]

\* A ScrubbingRule: pattern is a string (ptype "string", its flags unused) or
\* a RegExp (ptype "RegExp").
Rule(ptype, src, flags, replacement) ==
    [pattern |-> [ptype |-> ptype, src |-> src, flags |-> flags],
     replacement |-> replacement]

----
(* AbstractScrubber *)

\* createRegexPattern: a string is compiled with the g flag, and a syntax
\* error throws; a RegExp is returned as it is, with the flags it has.
createRegexPattern(rule) ==
    IF rule.pattern.ptype = "string"
    THEN IF Compiles(rule.pattern.src)
         THEN [threw |-> FALSE, src |-> rule.pattern.src, flags |-> {"g"}]
         ELSE [threw |-> TRUE, src |-> rule.pattern.src, flags |-> {}]
    ELSE [threw |-> FALSE, src |-> rule.pattern.src, flags |-> rule.pattern.flags]

\* The body of the loop of applyScrubRules from rule k on: scrubbed is the
\* content so far, warned the rules whose failure was caught and logged.
RECURSIVE applyRulesFrom(_, _, _, _)
applyRulesFrom(rules, k, scrubbed, warned) ==
    IF k > Len(rules) THEN [content |-> scrubbed, threw |-> FALSE, warned |-> warned]
    ELSE LET p == createRegexPattern(rules[k])
         IN  IF p.threw THEN applyRulesFrom(rules, k + 1, scrubbed, warned \cup {k})
             ELSE LET replaced == Replace(scrubbed, RegExp(p.src, p.flags),
                                          rules[k].replacement)
                  IN  IF replaced = scrubbed
                      THEN applyRulesFrom(rules, k + 1, scrubbed, warned)
                      ELSE applyRulesFrom(rules, k + 1, replaced, warned)

\* A loop without the try/catch: the first failure ends it and propagates.
RECURSIVE applyRulesNoCatchFrom(_, _, _)
applyRulesNoCatchFrom(rules, k, scrubbed) ==
    IF k > Len(rules) THEN [content |-> scrubbed, threw |-> FALSE, warned |-> {}]
    ELSE LET p == createRegexPattern(rules[k])
         IN  IF p.threw THEN [content |-> scrubbed, threw |-> TRUE, warned |-> {}]
             ELSE applyRulesNoCatchFrom(rules, k + 1,
                      Replace(scrubbed, RegExp(p.src, p.flags), rules[k].replacement))

applyScrubRulesNoCatch(rules, content) == applyRulesNoCatchFrom(rules, 1, content)

\* A loop that gives every rule the original content and keeps the last output.
RECURSIVE applyRulesToOriginalFrom(_, _, _, _)
applyRulesToOriginalFrom(rules, k, content, scrubbed) ==
    IF k > Len(rules) THEN [content |-> scrubbed, threw |-> FALSE, warned |-> {}]
    ELSE LET p == createRegexPattern(rules[k])
         IN  IF p.threw THEN applyRulesToOriginalFrom(rules, k + 1, content, scrubbed)
             ELSE applyRulesToOriginalFrom(rules, k + 1, content,
                      Replace(content, RegExp(p.src, p.flags), rules[k].replacement))

applyScrubRulesToOriginal(rules, content) ==
    applyRulesToOriginalFrom(rules, 1, content, content)

applyScrubRules(rules, content) == applyRulesFrom(rules, 1, content, {})

hasContentChanged(original, scrubbed) == original # scrubbed

----
(* LocatorRulesFactory and DefaultRulesFactory *)

Asterisks == <<"********">>
Absent == [present |-> FALSE, text |-> <<>>]
Given(text) == [present |-> TRUE, text |-> text]

\* getMaskValue: customMask || '********' takes the fallback for an absent
\* and for an empty customMask.
getMaskValue(config) ==
    CASE config.maskingStrategy = "asterisks" -> Asterisks
      [] config.maskingStrategy = "placeholder" -> <<"[MASKED]">>
      [] config.maskingStrategy = "custom" ->
            IF config.customMask.present /\ config.customMask.text # <<>>
            THEN config.customMask.text ELSE Asterisks
      [] OTHER -> Asterisks

LocatorFlags(config) == IF config.caseSensitive THEN {"g"} ELSE {"g", "i"}

\* `$1${mask}$3`: the mask is spliced into the replacement template.
MaskTemplate(config) == <<"$", "1">> \o getMaskValue(config) \o <<"$", "3">>

createRulesForIdentifier(identifier, config) ==
    [k \in 1..11 |->
        Rule("RegExp", Src("loc", k, identifier, ".fill"), LocatorFlags(config),
             MaskTemplate(config))]

createMethodRulesForIdentifier(identifier, method, config) ==
    [k \in 1..2 |->
        Rule("RegExp", Src("ext", k, identifier, method), LocatorFlags(config),
             MaskTemplate(config))]

methods == <<".fill", ".type", ".selectOption", ".setInputFiles">>

\* getJavaScriptRules
getJavaScriptRules ==
    <<Rule("RegExp", Src("reportvar", 0, "", ""), {"g"},
           <<ReportVar, " ", "=", " ", DQ, "********", DQ, ";">>),
      Rule("RegExp", Src("field", 0, "password", ""), {"g"}, <<"$", "1", "********", "$", "3">>),
      Rule("RegExp", Src("field", 0, "email", ""), {"g"}, <<"$", "1", "********", "$", "3">>),
      Rule("RegExp", Src("field", 0, "token", ""), {"g"}, <<"$", "1", "********", "$", "3">>)>>

----
(* Bounds and inputs *)

MaxLen == 2        \* tokens in the content given to applyScrubRules
MaxRules == 3      \* rules in a rule list

SeqsUpTo(S, n) == UNION {[1..k -> S] : k \in 0..n}

Text(x) == Src("text", 0, x, "")

\* The sample rules: two text patterns that stack (a to b, b to c), a text
\* pattern that does not compile, a RegExp without the g flag, a RegExp with it.
SampleRules ==
    {Rule("string", Text("a"), {}, <<"b">>),
     Rule("string", Text("b"), {}, <<"c">>),
     Rule("string", Src("bad", 0, "(", ""), {}, <<"c">>),
     Rule("RegExp", Text("a"), {}, <<"c">>),
     Rule("RegExp", Text("c"), {"g"}, <<"a">>)}

SampleContents == SeqsUpTo({"a", "b", "c"}, MaxLen)

\* The selector calls, one for each selector syntax, mentioning word.
Selectors(word) ==
    {<<".locator", "(", DQ, "#", word, DQ, ")">>,
     <<".locator", "(", DQ, "input", "[", "name", "=", word, "]", DQ, ")">>,
     <<".locator", "(", DQ, "//", "input", "[", "@id", "=", SQ, word, SQ, "]", DQ, ")">>,
     <<".locator", "(", DQ, "//", "input", "[", "@name", "=", SQ, word, SQ, "]", DQ, ")">>,
     <<".locator", "(", DQ, "//", "input", "[", "@class", "=", SQ, word, SQ, "]", DQ, ")">>,
     <<".locator", "(", DQ, "//", "label", "[", "contains", "(", "text", "(", ")", ",",
       SQ, word, SQ, ")", "]", DQ, ")">>,
     <<".locator", "(", DQ, "[", "data-testid", "=", word, "]", DQ, ")">>,
     <<".getByTestId", "(", DQ, word, DQ, ")">>,
     <<".getByRole", "(", DQ, "textbox", DQ, ",", "{", "name", ":", " ", DQ, word, DQ,
       "}", ")">>,
     <<".getByLabel", "(", SQ, word, SQ, ")">>,
     <<".getByPlaceholder", "(", DQ, word, DQ, ")">>}

SampleSelectors == Selectors("password") \cup {<<".locator", "(", DQ, "#", "PASSWORD", DQ, ")">>}

SampleMasks ==
    {[maskingStrategy |-> "asterisks", customMask |-> Absent],
     [maskingStrategy |-> "placeholder", customMask |-> Absent],
     [maskingStrategy |-> "custom", customMask |-> Absent],
     [maskingStrategy |-> "custom", customMask |-> Given(<<>>)],
     [maskingStrategy |-> "custom", customMask |-> Given(<<"XXX">>)],
     [maskingStrategy |-> "custom", customMask |-> Given(<<"$", "2">>)],
     [maskingStrategy |-> "custom", customMask |-> Given(<<"$", "REDACTED", "$">>)]}

SampleValues == {<<"secret">>, <<"Super", " ", "Secret">>}

\* The rules generated for one identifier: createRulesForIdentifier, then
\* createMethodRulesForIdentifier for fill.
LocatorRulesFor(identifier, config) ==
    createRulesForIdentifier(identifier, config)
        \o createMethodRulesForIdentifier(identifier, ".fill", config)

\* page<selector>.<op>("<value>");
CallPrefix(a) == <<"page">> \o a.sel \o <<a.op, "(", DQ>>
CallSuffix == <<DQ, ")", ";">>
CallText(a) == CallPrefix(a) \o a.value \o CallSuffix

NoRet == [content |-> <<>>, threw |-> FALSE, warned |-> {}]
Idle == <<>>

----
(* The rule engine called on its own: applyScrubRules(arg) with options.rules *)

InitRules ==
    /\ \E rs \in SeqsUpTo(SampleRules, MaxRules) :
          /\ rs # <<>>
          /\ options = [rules |-> rs, outputDir |-> <<>>, preserveOriginals |-> FALSE]
    /\ arg \in SampleContents
    /\ ret = NoRet
    /\ pc = "call"
    /\ disk = Idle /\ scratch = Idle /\ queue = Idle /\ cur = Idle
    /\ orig = Idle /\ trail = Idle
    /\ playwrightConfig = Idle /\ paths = Idle /\ configFile = Idle /\ caller = Idle /\ logged = Idle

CallApplyScrubRules ==
    /\ pc = "call"
    /\ ret' = applyScrubRules(options.rules, arg)
    /\ pc' = "returned"
    /\ UNCHANGED <<options, disk, scratch, queue, cur, orig, trail, arg, playwrightConfig, paths, configFile, caller, logged>>

\* A second pass: applyScrubRules on the content the first pass returned;
\* orig keeps the result of the first pass.
CallAgain ==
    /\ pc = "returned"
    /\ orig' = ret
    /\ ret' = applyScrubRules(options.rules, ret.content)
    /\ pc' = "again"
    /\ UNCHANGED <<options, disk, scratch, queue, cur, trail, arg, playwrightConfig, paths, configFile, caller, logged>>

NextRules ==
    \/ CallApplyScrubRules
    \/ CallAgain

SpecRules == InitRules /\ [][NextRules]_vars

----
(* One generated locator rule applied to one call *)

InitLocator ==
    /\ \E mk \in SampleMasks, cs \in BOOLEAN, sel \in SampleSelectors,
          op \in {".fill", ".type"}, v \in SampleValues :
          LET config == [maskingStrategy |-> mk.maskingStrategy,
                         customMask |-> mk.customMask, caseSensitive |-> cs]
          IN  \E k \in 1..Len(LocatorRulesFor("password", config)) :
                 arg = [config |-> config, identifier |-> "password", k |-> k,
                        sel |-> sel, op |-> op, value |-> v]
    /\ options = [rules |-> <<LocatorRulesFor(arg.identifier, arg.config)[arg.k]>>,
                  outputDir |-> <<>>, preserveOriginals |-> FALSE]
    /\ ret = NoRet
    /\ pc = "call"
    /\ disk = Idle /\ scratch = Idle /\ queue = Idle /\ cur = Idle
    /\ orig = Idle /\ trail = Idle
    /\ playwrightConfig = Idle /\ paths = Idle /\ configFile = Idle /\ caller = Idle /\ logged = Idle

CallLocatorRule ==
    /\ pc = "call"
    /\ ret' = applyScrubRules(options.rules, CallText(arg))
    /\ pc' = "returned"
    /\ UNCHANGED <<options, disk, scratch, queue, cur, orig, trail, arg, playwrightConfig, paths, configFile, caller, logged>>

NextLocator == CallLocatorRule

SpecLocator == InitLocator /\ [][NextLocator]_vars

----
(* LocatorRulesFactory.getAllRules, and its rules applied to one call *)

RECURSIVE Flatten(_)
Flatten(ss) == IF ss = <<>> THEN <<>> ELSE Head(ss) \o Flatten(Tail(ss))

createLocatorRules(config) ==
    Flatten([i \in 1..Len(config.sensitiveIdentifiers) |->
                createRulesForIdentifier(config.sensitiveIdentifiers[i], config)])

createExtendedLocatorRules(config) ==
    Flatten([i \in 1..Len(config.sensitiveIdentifiers) |->
                Flatten([j \in 1..Len(methods) |->
                            createMethodRulesForIdentifier(
                                config.sensitiveIdentifiers[i], methods[j], config)])])

getAllRules(config) == createLocatorRules(config) \o createExtendedLocatorRules(config)

SampleIdentifiers == {<<"password">>, <<"password", "email">>}

InitAllRules ==
    /\ \E ids \in SampleIdentifiers, ms \in {"asterisks", "placeholder"}, cs \in BOOLEAN :
          \E i \in 1..Len(ids) :
             \E sel \in Selectors(ids[i]), j \in 1..Len(methods) :
                arg = [config |-> [sensitiveIdentifiers |-> ids, maskingStrategy |-> ms,
                                   customMask |-> Absent, caseSensitive |-> cs],
                       identifier |-> ids[i], k |-> 0, sel |-> sel, op |-> methods[j],
                       value |-> <<"secret">>]
    /\ options = [rules |-> <<>>, outputDir |-> <<>>, preserveOriginals |-> FALSE]
    /\ ret = NoRet
    /\ pc = "rules"
    /\ disk = Idle /\ scratch = Idle /\ queue = Idle /\ cur = Idle
    /\ orig = Idle /\ trail = Idle
    /\ playwrightConfig = Idle /\ paths = Idle /\ configFile = Idle /\ caller = Idle /\ logged = Idle

\* The rule list is built by getAllRules.
BuildAllRules ==
    /\ pc = "rules"
    /\ options' = [options EXCEPT !.rules = getAllRules(arg.config)]
    /\ pc' = "call"
    /\ UNCHANGED <<disk, scratch, queue, cur, orig, trail, arg, ret, playwrightConfig, paths, configFile, caller, logged>>

CallAllRules ==
    /\ pc = "call"
    /\ ret' = applyScrubRules(options.rules, CallText(arg))
    /\ pc' = "returned"
    /\ UNCHANGED <<options, disk, scratch, queue, cur, orig, trail, arg, playwrightConfig, paths, configFile, caller, logged>>

NextAllRules == BuildAllRules \/ CallAllRules

SpecAllRules == InitAllRules /\ [][NextAllRules]_vars

----
(* Paths and files *)

\* A path is its sequence of segments; the segment "cwd" stands for the
\* absolute path of process.cwd().  The files found by glob are absolute.
cwd == <<"cwd">>
IsAbsolute(p) == p # <<>> /\ p[1] = "cwd"
Relative(filePath) == IF IsAbsolute(filePath) THEN Tail(filePath) ELSE filePath
\* path.join normalises its result: a segment "." names no directory.
Join(a, b) == SelectSeq(a \o b, LAMBDA segment : segment # ".")
\* The file a path names.
Resolve(p) == IF IsAbsolute(p) THEN p ELSE cwd \o p

HtmlFile == <<"cwd", "report", "index.html">>
TraceA == <<"cwd", "results", "a", "trace.zip">>
TraceB == <<"cwd", "results", "b", "trace.zip">>
\* The page of the default report folder.
DefaultReport == <<"cwd", "playwright-report", "index.html">>
Artifacts == {HtmlFile, DefaultReport, TraceA, TraceB}
\* Every artifact, in the order of glob.
AllFiles == <<DefaultReport, HtmlFile, TraceA, TraceB>>
\* options.outputDir: absent, ./out, or "." (the working directory)
OutDirs == {<<>>, <<"out">>, <<".">>}
Paths == Artifacts \cup {Resolve(Join(<<"out">>, Relative(f))) : f \in Artifacts}

\* path.basename(filePath, '.zip')
Basename(filePath) == IF filePath[Len(filePath)] = "trace.zip" THEN "trace"
                      ELSE filePath[Len(filePath)]
ScratchNames == {Basename(f) : f \in {TraceA, TraceB}}

\* path.extname of the names of the entries
Extname(name) ==
    CASE name \in {"data.json", "report.json"} -> ".json"
      [] name = "NOTE.TXT" -> ".TXT"
      [] name = "shot.png" -> ".png"
      [] OTHER -> ".trace"

textExtensions == {".json", ".txt", ".html", ".js"}
IsTextEntry(name) == Lower(Extname(name)) \in textExtensions

NoEntries == <<>>
NoFile == [kind |-> "none", entries |-> NoEntries, text |-> <<>>]
ZipFile(entries) == [kind |-> "zip", entries |-> entries, text |-> <<>>]
PageFile(text) == [kind |-> "page", entries |-> NoEntries, text |-> text]
Corrupt == [kind |-> "corrupt", entries |-> NoEntries, text |-> <<"garbage">>]

----
(* PlaywrightConfigParser *)

\* A configuration: reporter is absent, a string, or a list of entries; an
\* entry is a string or an array [name, options]; outputDir and an entry's
\* outputFolder are paths, <<>> when unset; use.trace is absent, a boolean, a
\* string or an object.
NullPath == <<>>
ReporterString(name) == [form |-> "string", name |-> name, outputFolder |-> NullPath]
ReporterArray(name, outputFolder) ==
    [form |-> "array", name |-> name, outputFolder |-> outputFolder]
Reporters(kind, entries) == [kind |-> kind, entries |-> entries]
TraceValue(type, val) == [type |-> type, val |-> val]

\* The truthiness of a value of use.trace.
Truthy(v) ==
    CASE v.type = "undefined" -> FALSE
      [] v.type = "boolean" -> v.val = "true"
      [] v.type = "string" -> v.val # ""
      [] v.type = "object" -> TRUE

\* path.resolve(root, p)
PathResolve(root, p) == IF IsAbsolute(p) THEN p ELSE root \o p

hasHtmlReporter(reporters) ==
    \E i \in 1..Len(reporters) : reporters[i].name = "html"

\* addDefaults: outputDir and the reporter list get their defaults, and an
\* html reporter is appended when the list names none.
addDefaults(config) ==
    LET outputDir == IF config.outputDir = NullPath THEN <<"test-results">>
                     ELSE config.outputDir
        reporter == IF config.reporter.kind # "list" THEN <<>> ELSE config.reporter.entries
        withHtml == IF hasHtmlReporter(reporter) THEN reporter
                    ELSE Append(reporter, ReporterArray("html", <<"playwright-report">>))
    IN  [config EXCEPT !.outputDir = outputDir, !.reporter = Reporters("list", withHtml)]

\* The loop of getHtmlReportDir from entry i on.  A reporter that is a string
\* is iterated by its characters, none of which is "html".
RECURSIVE htmlReportDirFrom(_, _, _)
htmlReportDirFrom(projectRoot, reporters, i) ==
    IF i > Len(reporters) THEN NullPath
    ELSE IF reporters[i].name = "html"
    THEN PathResolve(projectRoot,
             IF reporters[i].form = "array" /\ reporters[i].outputFolder # NullPath
             THEN reporters[i].outputFolder ELSE <<"playwright-report">>)
    ELSE htmlReportDirFrom(projectRoot, reporters, i + 1)

\* A loop that keeps the last html entry instead of returning at the first.
RECURSIVE htmlReportDirLastFrom(_, _, _)
htmlReportDirLastFrom(projectRoot, reporters, i) ==
    IF i < 1 THEN NullPath
    ELSE IF reporters[i].name = "html"
    THEN PathResolve(projectRoot,
             IF reporters[i].form = "array" /\ reporters[i].outputFolder # NullPath
             THEN reporters[i].outputFolder ELSE <<"playwright-report">>)
    ELSE htmlReportDirLastFrom(projectRoot, reporters, i - 1)

getHtmlReportDirLast(projectRoot, config) ==
    IF config.reporter.kind # "list" THEN NullPath
    ELSE htmlReportDirLastFrom(projectRoot, config.reporter.entries,
                               Len(config.reporter.entries))

getHtmlReportDir(projectRoot, config) ==
    IF config.reporter.kind # "list" THEN NullPath
    ELSE htmlReportDirFrom(projectRoot, config.reporter.entries, 1)

\* A getTraceDir for which every truthy value enables tracing.
getTraceDirTruthy(projectRoot, config) ==
    IF Truthy(config.use.trace)
    THEN PathResolve(projectRoot,
             IF config.outputDir # NullPath THEN config.outputDir ELSE <<"test-results">>)
    ELSE NullPath

getTraceDir(projectRoot, config) ==
    IF ~Truthy(config.use.trace) THEN NullPath
    ELSE LET trace == config.use.trace
             traceEnabled == \/ (trace.type = "boolean" /\ trace.val = "true")
                             \/ (trace.type = "string" /\ trace.val # "off")
                             \/ trace.type = "object"
         IN  IF traceEnabled
             THEN PathResolve(projectRoot,
                      IF config.outputDir # NullPath THEN config.outputDir
                      ELSE <<"test-results">>)
             ELSE NullPath

getDirectoryPaths(projectRoot, config) ==
    [htmlReportDir |-> getHtmlReportDir(projectRoot, config),
     traceDir |-> getTraceDir(projectRoot, config)]

SampleReporters ==
    {Reporters("absent", <<>>),
     Reporters("string", <<>>),
     Reporters("list", <<>>),
     Reporters("list", <<ReporterString("list")>>),
     Reporters("list", <<ReporterString("html")>>),
     Reporters("list", <<ReporterArray("html", NullPath)>>),
     Reporters("list", <<ReporterArray("html", <<"out">>)>>),
     Reporters("list", <<ReporterArray("list", NullPath), ReporterArray("html", <<"out">>),
                         ReporterArray("html", <<"report">>)>>),
     Reporters("list", <<ReporterArray("json", <<"out">>), ReporterString("html"),
                         ReporterArray("html", <<"report">>)>>)}
SampleTraceValues ==
    {TraceValue("undefined", ""), TraceValue("boolean", "false"),
     TraceValue("boolean", "true"), TraceValue("string", ""), TraceValue("string", "off"),
     TraceValue("string", "on"), TraceValue("string", "retain-on-failure"),
     TraceValue("object", "mode-off")}
SampleOutputDirs == {NullPath, <<"results">>}
SampleRoots == {cwd, <<"cwd", "e2e">>}
SampleConfigs ==
    [reporter : SampleReporters, outputDir : SampleOutputDirs,
     use : [trace : SampleTraceValues]]

\* getDirectoryPaths on its own: on a configuration as written, or on the
\* configuration parse returns (after addDefaults).
InitConfig ==
    /\ arg \in [projectRoot : SampleRoots, config : SampleConfigs, parsed : BOOLEAN]
    /\ options = [rules |-> <<>>, outputDir |-> <<>>, preserveOriginals |-> FALSE]
    /\ ret = NoRet
    /\ pc = "call"
    /\ disk = Idle /\ scratch = Idle /\ queue = Idle /\ cur = Idle
    /\ orig = Idle /\ trail = Idle
    /\ playwrightConfig = Idle /\ paths = Idle /\ configFile = Idle /\ caller = Idle /\ logged = Idle

\* The configuration given to getDirectoryPaths.
ConfigGiven(a) == IF a.parsed THEN addDefaults(a.config) ELSE a.config

CallGetDirectoryPaths ==
    /\ pc = "call"
    /\ ret' = getDirectoryPaths(arg.projectRoot, ConfigGiven(arg))
    /\ pc' = "returned"
    /\ UNCHANGED <<options, disk, scratch, queue, cur, orig, trail, arg, playwrightConfig, paths, configFile, caller, logged>>

NextConfig == CallGetDirectoryPaths

SpecConfig == InitConfig /\ [][NextConfig]_vars

----
(* The archive embedded in a page: zip, then base64 *)

\* The tokens of entries, and the base64 text of each.
Plain == <<"{", "}", DQ, SQ, ":", ",", "username", "password", "bob", "hunter2", "it",
           "s", "********", "PNG", "report.json", "shot.png", "data.json">>
Coded == <<"eyA=", "fQ==", "Ig==", "Jw==", "Og==", "LA==", "dXNl", "cGFz", "Ym9i", "aHVu",
           "aXQ=", "cw==", "Kioq", "iVBO", "cmVw", "c2hv", "ZGF0">>

Base64Tok(t) == Coded[CHOOSE i \in 1..Len(Plain) : Plain[i] = t]
PlainTok(c) == Plain[CHOOSE i \in 1..Len(Coded) : Coded[i] = c]
IsCoded(c) == \E i \in 1..Len(Coded) : Coded[i] = c
Base64(s) == [i \in 1..Len(s) |-> Base64Tok(s[i])]
FromBase64(s) == [i \in 1..Len(s) |-> PlainTok(s[i])]

\* zip.generateAsync, then toString('base64'): the entries in their order,
\* each a local header ("UEsD"), its name and its content, then the end record.
RECURSIVE EncodeZip(_)
EncodeZip(files) ==
    IF files = <<>> THEN <<"UEsF">>
    ELSE <<"UEsD", Base64Tok(Head(files).name)>> \o Base64(Head(files).content)
             \o EncodeZip(Tail(files))

\* The longest run of content from position i.
RECURSIVE ContentEnd(_, _)
ContentEnd(s, i) == IF i <= Len(s) /\ IsCoded(s[i]) THEN ContentEnd(s, i + 1) ELSE i

\* Buffer.from(base64Str, 'base64'), then JSZip.loadAsync: the entries, or a
\* failure when the bytes are no archive.
RECURSIVE DecodeZipFrom(_, _, _)
DecodeZipFrom(s, i, files) ==
    IF i > Len(s) THEN [ok |-> FALSE, files |-> <<>>]
    ELSE IF s[i] = "UEsF" THEN [ok |-> i = Len(s), files |-> IF i = Len(s) THEN files ELSE <<>>]
    ELSE IF s[i] = "UEsD" /\ i + 1 <= Len(s) /\ IsCoded(s[i + 1])
    THEN LET e == ContentEnd(s, i + 2)
         IN  DecodeZipFrom(s, e,
                 Append(files, [name |-> PlainTok(s[i + 1]),
                                content |-> FromBase64(SubSeq(s, i + 2, e - 1))]))
    ELSE [ok |-> FALSE, files |-> <<>>]

DecodeZip(s) == DecodeZipFrom(s, 1, <<>>)

\* The first occurrence of needle in s from position i, or 0.
RECURSIVE IndexOf(_, _, _)
IndexOf(s, needle, i) ==
    IF i + Len(needle) - 1 > Len(s) THEN 0
    ELSE IF SubSeq(s, i, i + Len(needle) - 1) = needle THEN i
    ELSE IndexOf(s, needle, i + 1)

\* String.prototype.replace(string, template): the first occurrence of the
\* string is replaced; the template is expanded as for a pattern without groups.
ReplaceString(s, needle, tpl) ==
    LET i == IndexOf(s, needle, 1)
        m == [found |-> TRUE, at |-> i, end |-> i + Len(needle), caps |-> NoCaps]
    IN  IF i = 0 THEN s
        ELSE SubSeq(s, 1, i - 1) \o GetSubstitution(tpl, 1, s, m, 0)
                 \o SubSeqFrom(s, i + Len(needle))


----
(* AbstractScrubber: output paths and originals *)

getOutputPath(filePath) ==
    IF options.outputDir = <<>> THEN filePath
    ELSE Join(options.outputDir, Relative(filePath))

\* An original that is never removed.
handleOriginalFileNever(d, originalPath, outputPath, unlinkFails) == d

\* An original removed whatever preserveOriginals says.
handleOriginalFileAlways(d, originalPath, outputPath, unlinkFails) ==
    IF outputPath # originalPath /\ ~unlinkFails
    THEN [d EXCEPT ![Resolve(originalPath)] = NoFile]
    ELSE d

\* handleOriginalFile: the disk after it.  A failure of unlink is caught and
\* logged, and the original stays.
handleOriginalFile(d, originalPath, outputPath, unlinkFails) ==
    IF outputPath # originalPath /\ ~options.preserveOriginals /\ ~unlinkFails
    THEN [d EXCEPT ![Resolve(originalPath)] = NoFile]
    ELSE d

RemovesOriginal(originalPath, outputPath) ==
    outputPath # originalPath /\ ~options.preserveOriginals

\* path.extname of the name of an artifact
FileExt(p) == IF p[Len(p)] = "trace.zip" THEN ".zip" ELSE ".html"
Under(dir, p) == IsPrefix(dir, p) /\ Len(p) > Len(dir)
\* The paths the glob patterns <baseDir>/**/*<ext> may yield.
Candidates(baseDir, fileExtensions) ==
    SelectSeq(AllFiles, LAMBDA p : Under(baseDir, p) /\ FileExt(p) \in fileExtensions)

\* A search that yields every path of the patterns, on disk or not.
findFilesUnchecked(candidates) == candidates

\* FileProcessor.findFiles: the files of the directory, in the order of glob;
\* none when the directory does not exist.
RECURSIVE findFiles(_)
findFiles(candidates) ==
    IF candidates = <<>> THEN <<>>
    ELSE IF disk[Head(candidates)].kind # "none"
    THEN <<Head(candidates)>> \o findFiles(Tail(candidates))
    ELSE findFiles(Tail(candidates))

----
(* HtmlReportScrubber.scrubFile on the content of a page *)

\* The entries of the embedded archive after the loop over zip.files: every
\* entry is read as a string and given to applyScrubRules.
scrubZipFiles(rules, files) ==
    [i \in 1..Len(files) |->
        [name |-> files[i].name,
         content |-> applyScrubRules(rules, files[i].content).content]]

\* A page whose every text is given to the rules, marker or none.
scrubWholeContent(rules, content) ==
    LET scrubbed == applyScrubRules(rules, content).content
    IN  [status |-> IF scrubbed # content THEN "rewrite" ELSE "nochange",
         content |-> scrubbed]

\* A page rewritten with the rules applied around the marker as well.
scrubAroundMarker(rules, content) ==
    LET m == ExecFrom(scriptPattern, FALSE, content, 1)
        zip == DecodeZip(Captured(content, m, 2))
    IN  IF ~m.found THEN [status |-> "nomarker", content |-> content]
        ELSE IF ~zip.ok THEN [status |-> "threw", content |-> content]
        ELSE [status |-> "rewrite",
              content |-> applyScrubRules(rules, SubSeq(content, 1, m.at - 1)).content
                            \o Captured(content, m, 1)
                            \o EncodeZip(scrubZipFiles(rules, zip.files))
                            \o Captured(content, m, 3)
                            \o SubSeqFrom(content, m.end)]

\* status: "nomarker" when scriptPattern does not match, "threw" when the
\* payload is no archive, "nochange" when no entry changed, "rewrite" with the
\* new content of the page otherwise.
scrubFileContent(rules, content) ==
    LET m == ExecFrom(scriptPattern, FALSE, content, 1)
        fullMatch == SubSeq(content, m.at, m.end - 1)
        prefix == Captured(content, m, 1)
        base64Str == Captured(content, m, 2)
        suffix == Captured(content, m, 3)
        zip == DecodeZip(base64Str)
        files == scrubZipFiles(rules, zip.files)
        hasChanges == \E i \in 1..Len(files) : files[i].content # zip.files[i].content
        newScript == prefix \o EncodeZip(files) \o suffix
    IN  IF ~m.found THEN [status |-> "nomarker", content |-> content]
        ELSE IF ~zip.ok THEN [status |-> "threw", content |-> content]
        ELSE IF hasChanges
        THEN [status |-> "rewrite", content |-> ReplaceString(content, fullMatch, newScript)]
        ELSE [status |-> "nochange", content |-> content]

----
(* TraceScrubber on the scratch directory *)

\* zip.extractAllTo(tempDir, true): the entries are written over what the
\* directory holds; what else it holds stays.
extractAllTo(files, entries) ==
    [p \in DOMAIN files \cup DOMAIN entries |->
        IF p \in DOMAIN entries THEN entries[p] ELSE files[p]]

\* scrubTextFile: a failure of the read or of the write is caught and logged,
\* and the file stays as it was extracted.
scrubTextFile(rules, content, fails) ==
    IF fails THEN content ELSE applyScrubRules(rules, content).content

processExtractedFiles(rules, files, failing) ==
    [p \in DOMAIN files |->
        IF IsTextEntry(p) THEN scrubTextFile(rules, files[p], p \in failing) ELSE files[p]]

\* createScrubbedZip: every file of the scratch directory, at its relative path.
createScrubbedZip(files) == ZipFile(files)

\* A processTraceFile that goes on after an error of createScrubbedZip.
stepAfterZipIgnoring(zipThrows) == "original"

\* processTraceFile after createScrubbedZip: its error leaves processTraceFile
\* for the finally of scrubFile; else handleOriginalFile is next.
stepAfterZip(zipThrows) == IF zipThrows THEN "cleanup" ELSE "original"

\* A cleanup that leaves the directory.
cleanupNever(dir, rmFails) == dir

\* cleanup: rm of the scratch directory; its failure is caught and logged.
cleanup(dir, rmFails) == IF rmFails THEN dir ELSE [exists |-> FALSE, files |-> NoEntries]


----
(* A run of MainScrubber.scrub over one report page and two trace archives *)

MaxFaults == 1     \* failures of the file system in one run

Field(key, value) == <<DQ, key, DQ, ":", DQ>> \o value \o <<DQ>>
Doc(user, password) ==
    <<"{">> \o Field("username", user) \o <<",">> \o Field("password", password) \o <<"}">>

Users == {<<"bob">>}
Passwords == {<<"hunter2">>, <<"it", SQ, "s">>}
DocPlain == <<"{">> \o Field("username", <<"bob">>) \o <<"}">>
\* Bytes of an image in which the text of a password field occurs.
Binary == <<"PNG">> \o Field("password", <<"hunter2">>)

ArchBob == ("data.json" :> Doc(<<"bob">>, <<"hunter2">>)) @@ ("shot.png" :> Binary)
ArchApos == ("data.json" :> Doc(<<"bob">>, <<"it", SQ, "s">>))
ArchNote == ("NOTE.TXT" :> Field("password", <<"hunter2">>)) @@ ("trace.trace" :> Binary)
ArchPlain == ("data.json" :> DocPlain) @@ ("shot.png" :> <<"PNG">>)
SampleArchives == {ArchBob, ArchApos, ArchNote, ArchPlain}

Entry(name, content) == [name |-> name, content |-> content]
SamplePayloads ==
    {EncodeZip(<<Entry("report.json", Doc(<<"bob">>, <<"hunter2">>)),
                 Entry("shot.png", <<"PNG">>)>>),
     EncodeZip(<<Entry("shot.png", Binary),
                 Entry("report.json", Doc(<<"bob">>, <<"it", SQ, "s">>))>>),
     EncodeZip(<<Entry("report.json", DocPlain)>>),
     <<"AAAA">>}

\* The parts of a page with the marker assignment: what precedes the payload,
\* the payload, and what follows it.
PageParts(q, sp, payload) ==
    [before |-> <<"<html>">> \o Field("password", <<"hunter2">>) \o <<"<script>", ReportVar>>
                  \o sp \o <<"=">> \o sp \o <<q, DataUri>>,
     payload |-> payload,
     after |-> <<q, ";", "</script>">> \o Field("password", <<"hunter2">>) \o <<"</html>">>]
SamplePageParts ==
    {PageParts(DQ, <<" ">>, b) : b \in SamplePayloads}
        \cup {PageParts(SQ, <<>>, b) : b \in {CHOOSE b \in SamplePayloads : Len(b) > 20}}
PageText(parts) == parts.before \o parts.payload \o parts.after

\* Pages without the marker assignment: plain, and with another assignment
\* to the variable.
SamplePlainPages ==
    {<<"<html>">> \o Field("password", <<"hunter2">>) \o <<"</html>">>,
     <<"<html>", "<script>", ReportVar, " ", "=", " ", DQ, "none", DQ, ";", "</script>">>
         \o Field("password", <<"hunter2">>)}

SamplePages == {PageText(parts) : parts \in SamplePageParts} \cup SamplePlainPages

NoCur == [file |-> <<>>, step |-> "idle", threw |-> FALSE]
NoTrail == [faults |-> 0, done |-> {}, failed |-> {}, written |-> {}, removed |-> {},
            warned |-> {}, scanned |-> {}, read |-> {}, unwritten |-> {}]
EmptyDir == [exists |-> FALSE, files |-> NoEntries]
\* What a write that failed midway leaves at its path.
HalfWritten == [kind |-> "partial", entries |-> NoEntries, text |-> <<>>]

RunConfig(reporter, outputDir, trace) ==
    [reporter |-> reporter, outputDir |-> outputDir, use |-> [trace |-> trace]]
\* The configuration of the sample project: html report in ./report, traces
\* in ./results.
MainConfig ==
    RunConfig(Reporters("list", <<ReporterArray("html", <<"report">>)>>), <<"results">>,
              TraceValue("string", "on"))
SampleRunConfigs ==
    {MainConfig,
     RunConfig(Reporters("list", <<ReporterString("list")>>), <<"results">>,
               TraceValue("string", "on")),
     RunConfig(Reporters("list", <<ReporterArray("html", <<"report">>)>>), <<"results">>,
               TraceValue("string", "off")),
     RunConfig(Reporters("absent", <<>>), NullPath, TraceValue("boolean", "true")),
     RunConfig(Reporters("absent", <<>>), NullPath, TraceValue("undefined", ""))}

\* The file at configPath: whether it is on disk, its extension as written,
\* and whether its import (for .ts: the ts-node script) yields a configuration.
ConfigFile(exists, ext, loads) == [exists |-> exists, ext |-> ext, loads |-> loads]
ConfigJs == ConfigFile(TRUE, ".js", TRUE)
SampleConfigFiles ==
    {ConfigJs, ConfigFile(TRUE, ".ts", TRUE), ConfigFile(TRUE, ".JS", TRUE),
     ConfigFile(FALSE, ".js", TRUE), ConfigFile(TRUE, ".json", TRUE),
     ConfigFile(TRUE, "", TRUE), ConfigFile(TRUE, ".js", FALSE),
     ConfigFile(TRUE, ".ts", FALSE)}

MarkerPage == PageText(PageParts(DQ, <<" ">>, CHOOSE b \in SamplePayloads : Len(b) > 20))

Init ==
    /\ \E rules \in {getJavaScriptRules, <<>>}, page \in SamplePages,
          dflt \in {NoFile, PageFile(MarkerPage)},
          ta \in {ZipFile(a) : a \in SampleArchives} \cup {Corrupt, NoFile},
          tb \in {NoFile, ZipFile(ArchBob), Corrupt} :
          /\ playwrightConfig \in SampleRunConfigs
          /\ configFile \in SampleConfigFiles
          /\ \/ /\ playwrightConfig = MainConfig /\ dflt = NoFile /\ rules # <<>>
                /\ configFile = ConfigJs
             \/ /\ playwrightConfig = MainConfig /\ dflt = NoFile /\ rules # <<>>
                /\ configFile # ConfigJs /\ tb = NoFile
                /\ page = MarkerPage /\ ta = ZipFile(ArchBob)
             \/ /\ playwrightConfig # MainConfig /\ rules # <<>> /\ tb = NoFile
                /\ configFile = ConfigJs
                /\ page \in {MarkerPage} \cup SamplePlainPages
                /\ ta \in {ZipFile(ArchBob), NoFile}
             \/ /\ playwrightConfig = MainConfig /\ rules = <<>> /\ dflt = NoFile /\ tb = NoFile
                /\ configFile \in {ConfigJs, ConfigFile(FALSE, ".js", TRUE)}
                /\ page = MarkerPage /\ ta = ZipFile(ArchBob)
          /\ options \in [rules : {rules}, outputDir : OutDirs, preserveOriginals : BOOLEAN,
                          verbose : BOOLEAN]
          /\ options.outputDir = <<".">> =>
                /\ playwrightConfig = MainConfig /\ configFile = ConfigJs /\ rules # <<>>
                /\ page = MarkerPage /\ ta = ZipFile(ArchBob) /\ tb = NoFile
                /\ ~options.verbose
          /\ options.verbose =>
                /\ playwrightConfig = MainConfig /\ configFile = ConfigJs /\ rules # <<>>
                /\ page = MarkerPage /\ ta = ZipFile(ArchBob) /\ tb = NoFile
          /\ disk = [p \in Paths |->
                        IF p = HtmlFile THEN PageFile(page)
                        ELSE IF p = DefaultReport THEN dflt
                        ELSE IF p = TraceA THEN ta
                        ELSE IF p = TraceB THEN tb
                        ELSE NoFile]
    /\ scratch = [n \in ScratchNames |-> EmptyDir]
    /\ pc = "new"
    /\ queue = <<>>
    /\ cur = NoCur
    /\ orig = disk
    /\ trail = NoTrail
    /\ arg = Idle
    /\ ret = NoRet
    /\ paths = [htmlReportDir |-> NullPath, traceDir |-> NullPath]
    /\ \E plan \in {"keeps", "removes"} :
          /\ plan = "removes" =>
                /\ playwrightConfig = MainConfig /\ configFile = ConfigJs
                /\ ~options.verbose /\ options.rules # <<>> /\ options.outputDir # <<".">>
                /\ orig[HtmlFile] = PageFile(MarkerPage)
                /\ orig[TraceA] = ZipFile(ArchBob)
                /\ orig[TraceB] \in {NoFile, ZipFile(ArchBob)}
          /\ caller = [given |-> options.rules, plan |-> plan]
    /\ logged = {}

\* Whether one more failure of the file system may happen in this run.
MayFail == trail.faults < MaxFaults
Outcomes(attempted) == IF attempted /\ MayFail THEN BOOLEAN ELSE {FALSE}
Count(fails) == IF fails THEN 1 ELSE 0

\* A constructor that accepts any rule list.
rulesMissingNever(opts) == FALSE

\* The test of the constructors: !options.rules || options.rules.length === 0.
\* A missing rule list is the empty one here.
rulesMissing(opts) == Len(opts.rules) = 0

Orchestrator == "PlaywrightResultScrubber"

\* log of AbstractScrubber, TraceScrubber and the orchestrator: the lines
\* written for the messages of the given kinds.
log(name, kinds) == IF options.verbose THEN {<<name, k>> : k \in kinds} ELSE {}

\* console.log of FileProcessor.findFiles, which has no verbose option.
consoleLog(kinds) == {<<"FileProcessor", k>> : k \in kinds}

\* The constructor of PlaywrightConfigParser throws when the file is missing.
configNotFound(file) == ~file.exists

\* String.prototype.toLowerCase on an extension
ToLowerCase(ext) == CASE ext = ".JS" -> ".js" [] ext = ".TS" -> ".ts" [] OTHER -> ext

\* A parse that accepts any extension and fails only when the file does not load.
parseThrowsOnLoad(file) == ~file.loads

\* parse: throws for an extension other than .js and .ts, and when the
\* import of the file, or the ts-node script for a .ts file, fails.  The
\* script file .temp-config-script.mjs is written and removed in between.
parseThrows(file) ==
    IF ToLowerCase(file.ext) \in {".js", ".ts"} THEN ~file.loads ELSE TRUE

\* new PlaywrightResultScrubber(configPath, options): the parser is
\* constructed first, then the rules are tested.
Construct ==
    /\ pc = "new"
    /\ pc' = IF configNotFound(configFile) \/ rulesMissing(options) THEN "rejected"
             ELSE "parse"
    /\ UNCHANGED logged
    /\ UNCHANGED <<options, disk, scratch, queue, cur, orig, trail, arg, ret, playwrightConfig, paths, configFile, caller>>

\* scrub: configParser.parse, with addDefaults, and getDirectoryPaths.  The
\* config file is in the working directory.
Parse ==
    /\ pc = "parse"
    /\ IF parseThrows(configFile)
       THEN /\ pc' = "failed"
            /\ UNCHANGED paths
       ELSE /\ paths' = getDirectoryPaths(cwd, addDefaults(playwrightConfig))
            /\ pc' = "start"
    /\ logged' = logged \cup log(Orchestrator,
                       {"start"} \cup IF parseThrows(configFile) THEN {"failed"} ELSE {})
    /\ UNCHANGED <<options, disk, scratch, queue, cur, orig, trail, arg, ret, playwrightConfig, configFile, caller>>

\* scrubHtmlReports: skipped without htmlReportDir; else the scrubber is
\* constructed and HtmlReportScrubber.scrubAllFiles finds the pages.
ScrubHtmlReports ==
    /\ pc = "start"
    /\ IF paths.htmlReportDir = NullPath
       THEN /\ queue' = <<>>
            /\ pc' = "html"
            /\ UNCHANGED trail
       ELSE IF rulesMissing(options)
       THEN /\ pc' = "failed"
            /\ UNCHANGED <<queue, trail>>
       ELSE /\ queue' = findFiles(Candidates(paths.htmlReportDir, {".html", ".js"}))
            /\ pc' = "html"
            /\ trail' = [trail EXCEPT !.scanned = @ \cup {paths.htmlReportDir}]
    /\ logged' = logged \cup
          IF paths.htmlReportDir = NullPath THEN log(Orchestrator, {"skip"})
          ELSE IF rulesMissing(options) THEN log(Orchestrator, {"scrubbing", "failed"})
          ELSE log(Orchestrator, {"scrubbing"}) \cup consoleLog({"search"})
               \cup log("HtmlReportScrubber", {IF queue' = <<>> THEN "none" ELSE "found"})
    /\ UNCHANGED <<options, disk, scratch, cur, orig, arg, ret, playwrightConfig, paths, configFile, caller>>

\* HtmlReportScrubber.scrubFile on the next page.  A write that fails leaves
\* the file at the output path as it was, or half written.
HtmlScrubFile ==
    /\ pc = "html"
    /\ queue # <<>>
    /\ LET filePath == Head(queue)
           r == scrubFileContent(options.rules, disk[Resolve(filePath)].text)
           outputPath == getOutputPath(filePath)
           readTrail == [trail EXCEPT !.read = @ \cup {filePath}]
       IN  CASE disk[Resolve(filePath)].kind = "none" ->
                   /\ queue' = Tail(queue)
                   /\ trail' = [trail EXCEPT !.warned = @ \cup {<<filePath, "access">>}]
                   /\ UNCHANGED <<disk, pc>>
             [] disk[Resolve(filePath)].kind # "none" /\ r.status = "threw" ->
                   /\ pc' = "failed"
                   /\ trail' = [readTrail EXCEPT !.failed = @ \cup {filePath}]
                   /\ UNCHANGED <<disk, queue>>
             [] disk[Resolve(filePath)].kind # "none"
                /\ r.status \in {"nomarker", "nochange"} ->
                   /\ queue' = Tail(queue)
                   /\ trail' = [readTrail EXCEPT !.done = @ \cup {filePath}]
                   /\ UNCHANGED <<disk, pc>>
             [] disk[Resolve(filePath)].kind # "none" /\ r.status = "rewrite" ->
                   \E writeFails \in Outcomes(TRUE) :
                      IF writeFails
                      THEN /\ pc' = "failed"
                           /\ trail' = [readTrail EXCEPT !.failed = @ \cup {filePath},
                                                         !.unwritten = @ \cup {filePath},
                                                         !.faults = @ + 1]
                           /\ \E half \in BOOLEAN :
                                 disk' = IF half
                                         THEN [disk EXCEPT ![Resolve(outputPath)] = HalfWritten]
                                         ELSE disk
                           /\ UNCHANGED queue
                      ELSE \E unlinkFails \in Outcomes(RemovesOriginal(filePath, outputPath)) :
                              /\ disk' = handleOriginalFile(
                                            [disk EXCEPT ![Resolve(outputPath)] =
                                                            PageFile(r.content)],
                                            filePath, outputPath, unlinkFails)
                              /\ queue' = Tail(queue)
                              /\ trail' = [readTrail EXCEPT
                                    !.done = @ \cup {filePath},
                                    !.written = @ \cup {Resolve(outputPath)},
                                    !.removed = @ \cup
                                        IF RemovesOriginal(filePath, outputPath) /\ ~unlinkFails
                                        THEN {filePath} ELSE {},
                                    !.faults = @ + Count(unlinkFails)]
                              /\ UNCHANGED pc
    /\ logged' = logged \cup
          IF disk[Resolve(Head(queue))].kind = "none" THEN log("HtmlReportScrubber", {"warning"})
          ELSE IF pc' = "failed"
          THEN log("HtmlReportScrubber", {"error"}) \cup log(Orchestrator, {"failed"})
          ELSE IF trail'.written = trail.written THEN log("HtmlReportScrubber", {"skip"})
          ELSE log("HtmlReportScrubber",
                   {"changed"} \cup (IF trail'.removed # trail.removed THEN {"removed"} ELSE {})
                               \cup (IF trail'.faults # trail.faults THEN {"warning"} ELSE {}))
    /\ UNCHANGED <<options, scratch, cur, orig, arg, ret, playwrightConfig, paths, configFile, caller>>

\* A scrub that does not await scrubHtmlReports.
scrubHtmlReportsNotAwaited(pages) == TRUE

\* await this.scrubHtmlReports(...): it has returned when the for loop of
\* scrubAllFiles, which awaits every scrubFile, has taken the last page.
scrubHtmlReportsReturned(pages) == pages = <<>>

\* scrubTraceFiles: skipped without traceDir; else the scrubber is constructed
\* and TraceScrubber.scrubAllFiles finds the archives.
ScrubTraceFiles ==
    /\ pc = "html"
    /\ scrubHtmlReportsReturned(queue)
    /\ IF paths.traceDir = NullPath
       THEN /\ queue' = <<>>
            /\ pc' = "trace"
            /\ UNCHANGED trail
       ELSE IF rulesMissing(options)
       THEN /\ pc' = "failed"
            /\ UNCHANGED <<queue, trail>>
       ELSE /\ queue' = findFiles(Candidates(paths.traceDir, {".zip"}))
            /\ pc' = "trace"
            /\ trail' = [trail EXCEPT !.scanned = @ \cup {paths.traceDir}]
    /\ logged' = logged \cup
          IF paths.traceDir = NullPath THEN log(Orchestrator, {"skip"})
          ELSE IF rulesMissing(options) THEN log(Orchestrator, {"scrubbing", "failed"})
          ELSE log(Orchestrator, {"scrubbing"}) \cup log("TraceScrubber", {"initialized", "search"})
               \cup IF queue' = <<>> THEN log("TraceScrubber", {"skip"})
                    ELSE consoleLog({"search"}) \cup log("TraceScrubber", {"found"})
    /\ UNCHANGED <<options, disk, scratch, cur, orig, arg, ret, playwrightConfig, paths, configFile, caller>>

\* TraceScrubber.scrubFile on the next archive, up to mkdir of the scratch
\* directory in processTraceFile; a failure of mkdir throws.
TraceScrubFile ==
    /\ pc = "trace"
    /\ cur.step = "idle"
    /\ queue # <<>>
    /\ \E mkdirFails \in Outcomes(TRUE) :
          IF mkdirFails
          THEN /\ cur' = [file |-> Head(queue), step |-> "cleanup", threw |-> TRUE]
               /\ trail' = [trail EXCEPT !.faults = @ + 1]
               /\ UNCHANGED scratch
          ELSE /\ cur' = [file |-> Head(queue), step |-> "extract", threw |-> FALSE]
               /\ scratch' = [scratch EXCEPT ![Basename(Head(queue))].exists = TRUE]
               /\ UNCHANGED trail
    /\ logged' = logged \cup log("TraceScrubber", {"processing"})
    /\ UNCHANGED <<options, disk, pc, queue, orig, arg, ret, playwrightConfig, paths, configFile, caller>>

\* new AdmZip(filePath) and extractAllTo: a file that is no archive throws.
TraceExtract ==
    /\ cur.step = "extract"
    /\ IF disk[Resolve(cur.file)].kind # "zip"
       THEN /\ cur' = [cur EXCEPT !.step = "cleanup", !.threw = TRUE]
            /\ UNCHANGED scratch
       ELSE /\ scratch' = [scratch EXCEPT ![Basename(cur.file)].files =
                              extractAllTo(@, disk[Resolve(cur.file)].entries)]
            /\ cur' = [cur EXCEPT !.step = "process"]
    /\ trail' = [trail EXCEPT !.read = @ \cup {cur.file}]
    /\ UNCHANGED logged
    /\ UNCHANGED <<options, disk, pc, queue, orig, arg, ret, playwrightConfig, paths, configFile, caller>>

\* processExtractedFiles: failing are the text files whose read or write fails.
TraceProcessExtractedFiles ==
    /\ cur.step = "process"
    /\ LET files == scratch[Basename(cur.file)].files
           texts == {p \in DOMAIN files : IsTextEntry(p)}
       IN  \E failing \in SUBSET texts :
              /\ Cardinality(failing) <= MaxFaults - trail.faults
              /\ scratch' = [scratch EXCEPT ![Basename(cur.file)].files =
                                processExtractedFiles(options.rules, files, failing)]
              /\ trail' = [trail EXCEPT
                    !.faults = @ + Cardinality(failing),
                    !.warned = @ \cup {<<cur.file, p>> : p \in failing}]
    /\ cur' = [cur EXCEPT !.step = "zip"]
    /\ logged' = logged \cup log("TraceScrubber",
                       (IF trail'.warned # trail.warned THEN {"warning"} ELSE {})
                          \cup (IF scratch' # scratch THEN {"changed"} ELSE {}))
    /\ UNCHANGED <<options, disk, pc, queue, orig, arg, ret, playwrightConfig, paths, configFile, caller>>

\* createScrubbedZip at getOutputPath(filePath): a failure of mkdir or of
\* writeZip throws, and a write that fails leaves the file at the output path
\* as it was, or half written.
TraceCreateScrubbedZip ==
    /\ cur.step = "zip"
    /\ \E writeFails \in Outcomes(TRUE) :
          IF writeFails
          THEN /\ cur' = [cur EXCEPT !.step = stepAfterZip(TRUE), !.threw = TRUE]
               /\ trail' = [trail EXCEPT !.faults = @ + 1,
                                         !.unwritten = @ \cup {cur.file}]
               /\ \E half \in BOOLEAN :
                     disk' = IF half
                             THEN [disk EXCEPT ![Resolve(getOutputPath(cur.file))] =
                                                  HalfWritten]
                             ELSE disk
          ELSE /\ disk' = [disk EXCEPT ![Resolve(getOutputPath(cur.file))] =
                              createScrubbedZip(scratch[Basename(cur.file)].files)]
               /\ trail' = [trail EXCEPT
                     !.written = @ \cup {Resolve(getOutputPath(cur.file))}]
               /\ cur' = [cur EXCEPT !.step = stepAfterZip(FALSE)]
    /\ logged' = logged \cup log("TraceScrubber", IF cur'.threw THEN {} ELSE {"wrote"})
    /\ UNCHANGED <<options, scratch, pc, queue, orig, arg, ret, playwrightConfig, paths, configFile, caller>>

TraceHandleOriginalFile ==
    /\ cur.step = "original"
    /\ LET outputPath == getOutputPath(cur.file)
       IN  \E unlinkFails \in Outcomes(RemovesOriginal(cur.file, outputPath)) :
              /\ disk' = handleOriginalFile(disk, cur.file, outputPath, unlinkFails)
              /\ trail' = [trail EXCEPT
                    !.removed = @ \cup
                        IF RemovesOriginal(cur.file, outputPath) /\ ~unlinkFails
                        THEN {cur.file} ELSE {},
                    !.faults = @ + Count(unlinkFails)]
    /\ cur' = [cur EXCEPT !.step = "cleanup"]
    /\ logged' = logged \cup log("TraceScrubber",
                       IF trail'.removed # trail.removed THEN {"removed"}
                       ELSE IF trail'.faults # trail.faults THEN {"warning"} ELSE {})
    /\ UNCHANGED <<options, scratch, pc, queue, orig, arg, ret, playwrightConfig, paths, configFile, caller>>

\* The finally of scrubFile: cleanup, whose failure is caught and logged; then
\* the error of processTraceFile, if any, leaves scrubAllFiles and scrub.
TraceCleanup ==
    /\ cur.step = "cleanup"
    /\ \E rmFails \in Outcomes(scratch[Basename(cur.file)].exists) :
          /\ scratch' = [scratch EXCEPT ![Basename(cur.file)] = cleanup(@, rmFails)]
          /\ trail' = [trail EXCEPT
                !.faults = @ + Count(rmFails),
                !.warned = @ \cup IF rmFails THEN {<<cur.file, "cleanup">>} ELSE {},
                !.done = @ \cup IF cur.threw THEN {} ELSE {cur.file},
                !.failed = @ \cup IF cur.threw THEN {cur.file} ELSE {}]
    /\ pc' = IF cur.threw THEN "failed" ELSE pc
    /\ queue' = IF cur.threw THEN queue ELSE Tail(queue)
    /\ cur' = NoCur
    /\ logged' = logged \cup log("TraceScrubber",
                                  IF trail'.faults # trail.faults THEN {"warning"} ELSE {})
                        \cup log(Orchestrator, IF cur.threw THEN {"failed"} ELSE {})
    /\ UNCHANGED <<options, disk, orig, arg, ret, playwrightConfig, paths, configFile, caller>>

\* The rules of this.options after the caller has changed its list:
\* { ...options } copies the properties of options, so this.options.rules is
\* the caller's array itself.
sharedRules(own, callers) == callers

\* rules.splice(1, 1): the caller removes the second rule of its list.
Splice(rules) == <<rules[1]>> \o SubSeqFrom(rules, 3)

\* The caller changes the rule list it passed, after the construction and
\* before scrub is called or while scrub awaits.
CallerChangesRules ==
    /\ pc \in {"parse", "start", "html", "trace"}
    /\ caller.plan = "removes"
    /\ options' = [options EXCEPT !.rules = sharedRules(@, Splice(@))]
    /\ caller' = [caller EXCEPT !.plan = "keeps"]
    /\ UNCHANGED <<disk, scratch, pc, queue, cur, orig, trail, arg, ret, playwrightConfig, paths, configFile, logged>>

\* scrub returns.
Finish ==
    /\ pc = "trace"
    /\ cur.step = "idle"
    /\ queue = <<>>
    /\ pc' = "done"
    /\ logged' = logged \cup log(Orchestrator, {"completed"})
    /\ UNCHANGED <<options, disk, scratch, queue, cur, orig, trail, arg, ret, playwrightConfig, paths, configFile, caller>>

Next ==
    \/ Construct
    \/ Parse
    \/ ScrubHtmlReports
    \/ HtmlScrubFile
    \/ ScrubTraceFiles
    \/ TraceScrubFile
    \/ TraceExtract
    \/ TraceProcessExtractedFiles
    \/ TraceCreateScrubbedZip
    \/ TraceHandleOriginalFile
    \/ TraceCleanup
    \/ Finish
    \/ CallerChangesRules

Spec == Init /\ [][Next]_vars


----
(* Claims about a run *)

Traces == {TraceA, TraceB}
\* The file at the output path of an artifact.
Output(f) == disk[Resolve(getOutputPath(f))]
\* The payload of a page written from a page of the given parts.
PayloadOf(parts, text) == SubSeq(text, Len(parts.before) + 1, Len(text) - Len(parts.after))
IsDoc(content) == \E u \in Users, p \in Passwords : content = Doc(u, p)
Masked(content) ==
    CHOOSE d \in {Doc(u, Asterisks) : u \in Users} :
        \E u \in Users, p \in Passwords : content = Doc(u, p) /\ d = Doc(u, Asterisks)

\* C1: after a run with the JSON-field rules and no failure of the file
\* system, a JSON document {"username": u, "password": p} stored in a trace
\* archive or in the archive embedded in a page is stored at the same entry
\* with the password "********" and the username unchanged.
C1_PasswordFieldMasked ==
    trail.faults = 0 =>
        /\ \A f \in trail.done \cap Traces :
              \A e \in DOMAIN orig[f].entries :
                 IsDoc(orig[f].entries[e]) =>
                    /\ e \in DOMAIN Output(f).entries
                    /\ Output(f).entries[e] = Masked(orig[f].entries[e])
        /\ \A parts \in SamplePageParts :
              (HtmlFile \in trail.done /\ orig[HtmlFile].text = PageText(parts)) =>
                 LET before == DecodeZip(parts.payload).files
                     after == DecodeZip(PayloadOf(parts, Output(HtmlFile).text)).files
                 IN  \A i \in 1..Len(before) :
                        IsDoc(before[i].content) =>
                           /\ i <= Len(after)
                           /\ after[i].name = before[i].name
                           /\ after[i].content = Masked(before[i].content)

\* C2: when scrubFile has completed without error for a trace archive, every
\* entry with a text extension holds applyScrubRules of its original content
\* in the rebuilt archive, and every other entry its original content.
C2_TextEntriesScrubbed ==
    \A f \in trail.done \cap Traces :
        /\ Output(f).kind = "zip"
        /\ \A e \in DOMAIN orig[f].entries :
              /\ e \in DOMAIN Output(f).entries
              /\ Output(f).entries[e] =
                    IF IsTextEntry(e)
                    THEN applyScrubRules(options.rules, orig[f].entries[e]).content
                    ELSE orig[f].entries[e]

\* C3: the rebuilt archive of a trace holds exactly the entry paths of the
\* original archive.
C3_SameEntryPaths ==
    \A f \in trail.done \cap Traces :
        DOMAIN Output(f).entries = DOMAIN orig[f].entries

\* C4: a page without the marker assignment is left as it is: scrubFile
\* raises no error, writes nothing at any path, and does not delete the page
\* (while the pages are processed, only the page of another report folder and
\* its output may differ from the disk before the run).
C4_NoMarkerUntouched ==
    orig[HtmlFile].text \in SamplePlainPages =>
        /\ HtmlFile \notin trail.failed
        /\ HtmlFile \notin trail.removed
        /\ disk[HtmlFile] = orig[HtmlFile]
        /\ Output(HtmlFile) = orig[Resolve(getOutputPath(HtmlFile))]
        /\ pc = "html" =>
              LET others == {DefaultReport, Resolve(getOutputPath(DefaultReport))}
              IN  /\ trail.written \subseteq others
                  /\ \A p \in Paths \ others : disk[p] = orig[p]

C4_Witness ==
    /\ orig[HtmlFile].text \in SamplePlainPages
    /\ HtmlFile \in trail.done
    /\ options.outputDir # <<>>
    /\ ~options.preserveOriginals
    /\ applyScrubRules(options.rules, orig[HtmlFile].text).content # orig[HtmlFile].text

\* C5: a page that is rewritten, and is on disk, differs from the original
\* only inside the payload of the marker assignment: what precedes the
\* payload and what follows it are the original's, and the payload holds no
\* quote.
C5_OnlyPayloadDiffers ==
    \A parts \in SamplePageParts :
        (/\ HtmlFile \in trail.done
         /\ Resolve(getOutputPath(HtmlFile)) \in trail.written
         /\ Output(HtmlFile) # NoFile
         /\ orig[HtmlFile].text = PageText(parts)) =>
            LET text == Output(HtmlFile).text
            IN  /\ Len(text) >= Len(parts.before) + Len(parts.after)
                /\ IsPrefix(parts.before, text)
                /\ IsSuffix(parts.after, text)
                /\ \A i \in 1..Len(PayloadOf(parts, text)) :
                      PayloadOf(parts, text)[i] \notin Quotes

C5_Witness ==
    /\ HtmlFile \in trail.done
    /\ Resolve(getOutputPath(HtmlFile)) \in trail.written
    /\ Output(HtmlFile).text # orig[HtmlFile].text
    /\ \E parts \in SamplePageParts : orig[HtmlFile].text = PageText(parts)

----
(* Claims about the rule engine *)

\* What one rule makes of a text: a rule whose pattern does not compile makes
\* nothing of it.
RuleOutput(rule, s) ==
    LET p == createRegexPattern(rule)
    IN  IF p.threw THEN s ELSE Replace(s, RegExp(p.src, p.flags), rule.replacement)

Front(s) == SubSeq(s, 1, Len(s) - 1)

\* The left-to-right fold: the last rule applied to the fold of the others.
RECURSIVE FoldRules(_, _)
FoldRules(rules, s) ==
    IF rules = <<>> THEN s ELSE RuleOutput(rules[Len(rules)], FoldRules(Front(rules), s))

\* C6: applyScrubRules returns the left-to-right fold of the rules: rule k is
\* applied to the output of rules 1..k-1, not to the original content.
C6_LeftFold ==
    pc = "returned" => ret.content = FoldRules(options.rules, arg)

\* C6, its case: a later rule changed text that an earlier rule produced and
\* that the original content did not hold.
C6_Witness ==
    /\ pc = "returned"
    /\ \E k \in 2..Len(options.rules) :
          /\ RuleOutput(options.rules[k], arg) = arg
          /\ FoldRules(SubSeq(options.rules, 1, k), arg)
                # FoldRules(SubSeq(options.rules, 1, k - 1), arg)

Fails(rule) == createRegexPattern(rule).threw
OtherRules(rules) == SelectSeq(rules, LAMBDA r : ~Fails(r))

\* C7: a rule whose pattern fails to compile is skipped, and only it: no
\* error propagates, the failure is logged for that rule, and the result is
\* that of the other rules in their order.
C7_SkipsOnlyFailingRule ==
    pc = "returned" =>
        /\ ~ret.threw
        /\ ret.warned = {k \in 1..Len(options.rules) : Fails(options.rules[k])}
        /\ ret.content = applyScrubRules(OtherRules(options.rules), arg).content

\* C7, its case: a rule failed, and a rule after it changed the content.
C7_Witness ==
    /\ pc = "returned"
    /\ \E k \in 1..Len(options.rules) :
          /\ Fails(options.rules[k])
          /\ \E j \in (k + 1)..Len(options.rules) :
                FoldRules(SubSeq(options.rules, 1, j), arg)
                    # FoldRules(SubSeq(options.rules, 1, j - 1), arg)

\* C8: every rule, its pattern given as text or as a RegExp, replaces every
\* occurrence of its pattern, not only the first: its output is that of the
\* same pattern with global matching.
C8_EveryOccurrenceReplaced ==
    (pc = "returned" /\ Len(options.rules) = 1 /\ ~Fails(options.rules[1])) =>
        LET rule == options.rules[1]
        IN  ret.content = Replace(arg, RegExp(rule.pattern.src, {"g"}), rule.replacement)

----
(* Claims about the locator rules *)

\* Whether the rule in hand matches the call in hand.
RuleMatchesCall ==
    LET p == createRegexPattern(options.rules[1])
    IN  ExecFrom(Ast(p.src), "i" \in p.flags, CallText(arg), 1).found

\* C9: a generated locator rule applied to <selector>.fill("secret") changes
\* only the text between the argument's quotes: the selector, the operation,
\* the quotes and the parentheses are as before.
C9_OnlyArgumentChanges ==
    pc = "returned" =>
        /\ Len(ret.content) >= Len(CallPrefix(arg)) + Len(CallSuffix)
        /\ IsPrefix(CallPrefix(arg), ret.content)
        /\ IsSuffix(CallSuffix, ret.content)

\* The mask the configuration asks for.
ConfiguredMask(config) ==
    CASE config.maskingStrategy = "asterisks" -> <<"********">>
      [] config.maskingStrategy = "placeholder" -> <<"[MASKED]">>
      [] config.maskingStrategy = "custom" ->
            IF config.customMask.present /\ config.customMask.text # <<>>
            THEN config.customMask.text ELSE <<"********">>

\* C10: where a locator rule matches, the value is replaced by exactly the
\* configured mask, the customMask reproduced literally; nothing of the value
\* survives.
C10_ValueBecomesConfiguredMask ==
    (pc = "returned" /\ RuleMatchesCall) =>
        ret.content = CallPrefix(arg) \o ConfiguredMask(arg.config) \o CallSuffix

----
(* Claims about getAllRules *)

\* The rules of a list whose pattern matches the text.
Matching(rules, text) ==
    {k \in 1..Len(rules) :
        LET p == createRegexPattern(rules[k])
        IN  ~p.threw /\ ExecFrom(Ast(p.src), "i" \in p.flags, text, 1).found}

\* C11: getAllRules holds one rule for every combination of identifier,
\* selector syntax and operation: the list has a rule for each of them, and
\* the call of any of the four operations on any selector syntax naming an
\* identifier is matched by exactly one rule.
C11_OneRulePerCombination ==
    pc # "rules" =>
        /\ Len(options.rules) =
              Len(arg.config.sensitiveIdentifiers)
                  * Cardinality(Selectors(arg.identifier)) * Len(methods)
        /\ Cardinality(Matching(options.rules, CallText(arg))) = 1

----
(* Claims about getDirectoryPaths *)

\* The reporter entries of a configuration.
EntriesOf(config) ==
    IF config.reporter.kind = "list" THEN config.reporter.entries ELSE <<>>
HtmlEntries(config) == {i \in 1..Len(EntriesOf(config)) : EntriesOf(config)[i].name = "html"}
FirstHtml(config) ==
    EntriesOf(config)[CHOOSE i \in HtmlEntries(config) : \A j \in HtmlEntries(config) : i <= j]

\* C12: htmlReportDir is that of the first reporter entry naming "html":
\* <configDir>/<outputFolder> when the entry has an outputFolder,
\* <configDir>/playwright-report otherwise; it is absent exactly when no
\* entry names "html".
C12_HtmlReportDir ==
    pc = "returned" =>
        LET config == ConfigGiven(arg)
        IN  IF HtmlEntries(config) = {} THEN ret.htmlReportDir = NullPath
            ELSE ret.htmlReportDir =
                    arg.projectRoot \o
                        (IF FirstHtml(config).outputFolder # NullPath
                         THEN FirstHtml(config).outputFolder ELSE <<"playwright-report">>)

C12_Witness ==
    /\ pc = "returned"
    /\ Cardinality(HtmlEntries(ConfigGiven(arg))) = 2
    /\ ret.htmlReportDir = <<"cwd", "e2e", "out">>

\* C13: traceDir is present exactly when use.trace is true, a text other
\* than "off" (and not empty), or an object; it is then <configDir>/<outputDir>,
\* with test-results for an unset outputDir.
C13_TraceDir ==
    pc = "returned" =>
        LET config == ConfigGiven(arg)
            trace == config.use.trace
            enabled == trace \in {TraceValue("boolean", "true"), TraceValue("string", "on"),
                                  TraceValue("string", "retain-on-failure"),
                                  TraceValue("object", "mode-off")}
        IN  ret.traceDir =
               IF enabled
               THEN arg.projectRoot \o (IF config.outputDir # NullPath THEN config.outputDir
                                        ELSE <<"test-results">>)
               ELSE NullPath

C13_Witness ==
    /\ pc = "returned"
    /\ ~arg.parsed
    /\ arg.config.use.trace = TraceValue("object", "mode-off")
    /\ arg.config.outputDir = NullPath
    /\ ret.traceDir = <<"cwd", "e2e", "test-results">>

----
(* Claims about scrub and its configuration *)

Pages == {HtmlFile, DefaultReport}
\* scrub has parsed the config file and derived the paths.
Started == pc \notin {"new", "rejected", "parse"} /\ ~parseThrows(configFile)

\* C14: in scrub, a configuration with no html reporter entry yields no
\* htmlReportDir and the pages are skipped: no directory is scanned for them,
\* and no page is read or written.
C14_NoHtmlEntrySkipsPages ==
    (Started /\ HtmlEntries(playwrightConfig) = {}) =>
        /\ paths.htmlReportDir = NullPath
        /\ pc = "html" => trail.scanned = {}
        /\ trail.read \cap Pages = {}
        /\ \A f \in Pages : disk[f] = orig[f] /\ Output(f) = orig[Resolve(getOutputPath(f))]

\* The artifacts whose scrubFile wrote its output and returned.
Rewritten == {f \in trail.done : Resolve(getOutputPath(f)) \in trail.written}
\* The output path the options ask for, as path.join spells it: relative when
\* outputDir is, and without the segments that name no directory.
ExpectedOutput(f) ==
    IF options.outputDir = <<>> THEN f
    ELSE SelectSeq(options.outputDir \o SubSeqFrom(f, Len(cwd) + 1), LAMBDA x : x # ".")

\* C15: the output of an artifact is at the path of the original when no
\* outputDir is given, and else at outputDir joined with the path of the
\* original relative to the working directory; once the output is written
\* and no failure of the file system occurred, the original is gone exactly
\* when the output path differs from its path and preserveOriginals is false.
C15_OutputPathAndOriginal ==
    \A f \in Rewritten :
        /\ getOutputPath(f) = ExpectedOutput(f)
        /\ Resolve(getOutputPath(f)) = cwd \o ExpectedOutput(f) \/ ExpectedOutput(f) = f
        /\ trail.faults = 0 =>
              (disk[f] = NoFile <=> (ExpectedOutput(f) # f /\ ~options.preserveOriginals))

C15_Witness ==
    /\ {HtmlFile, TraceA} \subseteq Rewritten
    /\ options.outputDir # <<>>
    /\ options.preserveOriginals
    /\ trail.faults = 0
    /\ disk[HtmlFile] = orig[HtmlFile]
    /\ disk[<<"cwd", "out", "results", "a", "trace.zip">>].kind = "zip"

\* The artifacts of a kind there are to scrub: none when the directory of the
\* kind is absent from the paths, is not on disk, or holds no matching file.
ToScrub(dir, kind) ==
    IF dir = NullPath THEN {} ELSE {f \in kind : Under(dir, f) /\ orig[f] # NoFile}
PagesToScrub == ToScrub(paths.htmlReportDir, Pages)
TracesToScrub == ToScrub(paths.traceDir, Traces)

\* C16: scrub does not fail for having nothing to scrub, and skipping one
\* kind does not keep the other from being processed: with no page to scrub
\* a failure of the run comes from a trace archive and a run that returns has
\* processed every trace archive; the same with pages for traces; with
\* neither, the run goes on until it returns.
C16_NothingToScrubSucceeds ==
    Started =>
        /\ (PagesToScrub = {} /\ pc = "failed") => trail.failed \cap Traces # {}
        /\ (TracesToScrub = {} /\ pc = "failed") => trail.failed \cap Pages # {}
        /\ (PagesToScrub = {} /\ pc = "done") => TracesToScrub \subseteq trail.done
        /\ (TracesToScrub = {} /\ pc = "done") => PagesToScrub \subseteq trail.done
        /\ (PagesToScrub = {} /\ TracesToScrub = {}) =>
              /\ pc # "failed"
              /\ pc # "done" => ENABLED Next

\* Nothing to scrub of either kind: no trace directory in the paths, and a
\* report directory that is not on disk.
C16_Witness ==
    /\ pc = "done"
    /\ paths.traceDir = NullPath
    /\ paths.htmlReportDir # NullPath
    /\ PagesToScrub = {}
    /\ trail = [NoTrail EXCEPT !.scanned = {paths.htmlReportDir}]

\* An artifact that is no valid container: a file that is no archive, or a
\* page whose payload is no archive.
InvalidContainer(f) ==
    \/ orig[f] = Corrupt
    \/ orig[f].kind = "page" /\ scrubFileContent(options.rules, orig[f].text).status = "threw"

\* C17: an artifact that is no valid container is skipped and the run goes
\* on: without a failure of the file system the run does not fail, and when
\* it returns every valid artifact there was to scrub has been processed.
C17_InvalidContainerConfined ==
    (Started /\ trail.faults = 0) =>
        /\ pc # "failed"
        /\ pc = "done" =>
              \A f \in PagesToScrub \cup TracesToScrub :
                 ~InvalidContainer(f) => f \in trail.done

\* The artifacts whose scrubFile has raised an error.
Raised == trail.failed \cup (IF cur.threw THEN {cur.file} ELSE {})

\* C18: scrubFile is all or nothing: when it fails, the original is on disk
\* with its original content, and no file is left half written.
C18_AllOrNothing ==
    /\ \A f \in Raised : disk[f] = orig[f]
    /\ \A p \in Paths : disk[p] # HalfWritten

\* The archives whose cleanup could not remove the scratch directory.
CleanupFailed == {f \in Traces : <<f, "cleanup">> \in trail.warned}

C20_NoRulesRejected ==
    Len(caller.given) = 0 =>
        /\ options.rules = <<>>
        /\ pc \in {"new", "rejected"}
        /\ disk = orig
        /\ trail = NoTrail
        /\ \A n \in ScratchNames : scratch[n] = EmptyDir

C20_Witness ==
    /\ Len(caller.given) = 0
    /\ pc = "rejected"
    /\ orig[HtmlFile].kind = "page"
    /\ orig[TraceA].kind = "zip"

\* A config file that is missing, has an extension other than .js and .ts,
\* or cannot be evaluated.
BadConfigFile ==
    \/ ~configFile.exists
    \/ configFile.ext \notin {".js", ".ts", ".JS"}
    \/ ~configFile.loads

\* C21: with a config file that is missing, cannot be evaluated or has
\* another extension than .js and .ts, the run ends with an error in the
\* constructor or in parse: no directory is scanned and no artifact is read,
\* written or deleted.
C21_BadConfigAborts ==
    BadConfigFile =>
        /\ pc \in {"new", "rejected", "parse", "failed"}
        /\ pc = "parse" => ENABLED Parse
        /\ pc = "failed" => ~configNotFound(configFile)
        /\ paths = [htmlReportDir |-> NullPath, traceDir |-> NullPath]
        /\ trail = NoTrail
        /\ disk = orig
        /\ \A n \in ScratchNames : scratch[n] = EmptyDir

C21_Witness ==
    /\ pc = "failed"
    /\ configFile = ConfigFile(TRUE, ".json", TRUE)
    /\ Len(options.rules) > 0
    /\ orig[HtmlFile].kind = "page"
    /\ trail = NoTrail

\* C22: when the output directory of an artifact cannot be created or its
\* output cannot be written, scrubFile raises the error, scrub fails once the
\* scratch directory is cleaned up, and the original is not deleted.
C22_WriteFailureFailsRun ==
    \A f \in trail.unwritten :
        /\ f \in Raised
        /\ cur.step = "idle" => pc = "failed"
        /\ pc # "done"
        /\ f \notin trail.removed
        /\ disk[f] # NoFile

\* The write of a trace archive failed with outputDir set and originals not
\* preserved, and scrub has failed.
C22_Witness ==
    /\ pc = "failed"
    /\ TraceA \in trail.unwritten
    /\ options.outputDir # <<>>
    /\ ~options.preserveOriginals
    /\ disk[TraceA] = orig[TraceA]

\* C23: when verbose is false, nothing is written to the console but the
\* final success or failure of the run.
C23_QuietWithoutVerbose ==
    ~options.verbose =>
        \A line \in logged : line[1] = Orchestrator /\ line[2] \in {"completed", "failed"}


C26_RulesFixedAtConstruction ==
    /\ options.rules = caller.given
    /\ trail.faults = 0 =>
          \A f \in trail.done \cap Traces :
             \A e \in DOMAIN orig[f].entries :
                IsTextEntry(e) =>
                   Output(f).entries[e] = applyScrubRules(caller.given, orig[f].entries[e]).content


\* C27: in the archive embedded in a page the rules are applied to the
\* entries with a text extension only: every other entry of the archive is
\* the same, byte for byte, in the rewritten page.
C27_EmbeddedBinaryUntouched ==
    \A parts \in SamplePageParts :
        (/\ HtmlFile \in trail.done
         /\ Resolve(getOutputPath(HtmlFile)) \in trail.written
         /\ orig[HtmlFile].text = PageText(parts)) =>
            LET before == DecodeZip(parts.payload).files
                after == DecodeZip(PayloadOf(parts, Output(HtmlFile).text)).files
            IN  \A k \in 1..Len(before) :
                   ~IsTextEntry(before[k].name) =>
                      /\ k <= Len(after)
                      /\ after[k] = before[k]


\* C28: when the extraction of a trace archive begins, its scratch directory
\* holds no file, also after an earlier archive failed or could not be
\* cleaned up; so the rebuilt archive holds no entry of an earlier archive.
C28_ScratchEmptyAtExtraction ==
    /\ cur.step = "extract" => DOMAIN scratch[Basename(cur.file)].files = {}
    /\ TraceB \in trail.done =>
          \A e \in DOMAIN Output(TraceB).entries : e \in DOMAIN orig[TraceB].entries


\* C29: once scrubFile has written the output of an artifact and returned,
\* the scrubbed file is at the output location, whatever outputDir and
\* preserveOriginals are: removing the original does not remove it.
C29_OutputExists ==
    \A f \in Rewritten :
        /\ Output(f) # NoFile
        /\ Output(f).kind = orig[f].kind


\* The pages no rule changes: those without the marker assignment, and those
\* whose embedded archive holds nothing a rule matches.
UnmatchedPages ==
    SamplePlainPages
        \cup {PageText(parts) : parts \in
                {q \in SamplePageParts :
                    q.payload = EncodeZip(<<Entry("report.json", DocPlain)>>)}}

\* C30: with outputDir set, a page that no rule changes is neither written
\* under outputDir nor deleted, whereas a trace archive that was processed
\* is written at its output path whether or not an entry changed, and its
\* original is deleted when preserveOriginals is false (and unlink did not
\* fail).
C30_UnchangedPageVersusTrace ==
    options.outputDir # <<>> =>
        /\ (HtmlFile \in trail.done /\ orig[HtmlFile].text \in UnmatchedPages) =>
              /\ Resolve(getOutputPath(HtmlFile)) \notin trail.written
              /\ Output(HtmlFile) = orig[Resolve(getOutputPath(HtmlFile))]
              /\ disk[HtmlFile] = orig[HtmlFile]
        /\ \A f \in trail.done \cap Traces :
              /\ Resolve(getOutputPath(f)) \in trail.written
              /\ (trail.faults = 0 /\ ~options.preserveOriginals) => disk[f] = NoFile

\* A page and a trace archive that no rule changes, processed with outputDir
\* set and originals not preserved: the page is where it was and nowhere
\* else, the archive is under outputDir only, with its entries as they were.
C30_Witness ==
    /\ pc = "done"
    /\ options.outputDir = <<"out">>
    /\ ~options.preserveOriginals
    /\ trail.faults = 0
    /\ orig[HtmlFile].text \in UnmatchedPages
    /\ HtmlFile \in trail.done
    /\ orig[TraceA] = ZipFile(ArchPlain)
    /\ TraceA \in trail.done
    /\ disk[TraceA] = NoFile
    /\ Output(TraceA) = orig[TraceA]
    /\ Output(HtmlFile) = NoFile

----
(* Claims about a second pass *)

\* The rules whose replacement holds nothing a rule of the list matches.
ReplacementsUnmatched(rules) ==
    \A i, j \in 1..Len(rules) : Matching(<<rules[j]>>, rules[i].replacement) = {}

\* C24: for rules whose replacement cannot produce text the rules match, a
\* second pass over scrubbed content changes nothing: its output is the
\* output of the first pass, and hasContentChanged is false.
C24_SecondPassChangesNothing ==
    (pc = "again" /\ ReplacementsUnmatched(options.rules)) =>
        /\ ret.content = orig.content
        /\ ~hasContentChanged(orig.content, ret.content)

====
